---- MODULE Spec2Model ----
(***************************************************************************)
(* State-machine model of src/app.py: a Streamlit script that collects a   *)
(* trip request, builds two CrewAI task descriptions, runs the crew once   *)
(* and keeps the returned text in st.session_state.                        *)
(*                                                                         *)
(* Text values are sequences of chunks (strings); the empty Python string  *)
(* is the empty sequence, concatenation is \o and "contains" is contiguous *)
(* sub-sequence.  One user interaction is one run of the script; the       *)
(* generate handler is split at the calls it makes, its position is pc.    *)
(***************************************************************************)
EXTENDS Integers, Sequences, FiniteSets, TLC

\* ------------------------------------------------------------------------
\* Bounds of the model
\* ------------------------------------------------------------------------
\* how many of the multiselect options the user selects among
NumInterestOptions == 2
\* how many consecutive dates, from the day before the default end date on,
\* the user picks among in a date input
NumPickDates == 3

\* ------------------------------------------------------------------------
\* Text helpers
\* ------------------------------------------------------------------------
Range(s) == {s[i] : i \in 1..Len(s)}

Contains(hay, needle) ==
  \E i \in 0..(Len(hay) - Len(needle)) :
    SubSeq(hay, i + 1, i + Len(needle)) = needle

\* Python truthiness of a str: the empty string is false
Truthy(text) == Len(text) > 0

DigitChar == <<"0", "1", "2", "3", "4", "5", "6", "7", "8", "9">>

RECURSIVE NatStr(_)
NatStr(n) ==
  IF n < 10 THEN <<DigitChar[n + 1]>>
  ELSE NatStr(n \div 10) \o <<DigitChar[(n % 10) + 1]>>

\* str(int), as the f-string's {duration} formats it
IntStr(n) == IF n < 0 THEN <<"-">> \o NatStr(0 - n) ELSE NatStr(n)

\* a join that stops after the first label
Join_first_only(sep, xs) == IF xs = <<>> THEN <<>> ELSE <<xs[1]>>

\* ", ".join(xs) for a list of labels
RECURSIVE Join(_, _)
Join(sep, xs) ==
  IF xs = <<>> THEN <<>>
  ELSE IF Len(xs) = 1 THEN <<xs[1]>>
  ELSE <<xs[1], sep>> \o Join(sep, Tail(xs))

LowerTable ==
  [c \in {"Paris", "Cape", "Town", "New", "York", " "} |->
     CASE c = "Paris" -> "paris"
       [] c = "Cape" -> "cape"
       [] c = "Town" -> "town"
       [] c = "New" -> "new"
       [] c = "York" -> "york"
       [] OTHER -> c]

\* str.lower(), chunk by chunk
Lower(text) == [i \in 1..Len(text) |-> LowerTable[text[i]]]

\* str.replace(' ', '_'), chunk by chunk (a space is a chunk of its own)
ReplaceSpace(text) ==
  [i \in 1..Len(text) |-> IF text[i] = " " THEN "_" ELSE text[i]]

\* ------------------------------------------------------------------------
\* Calendar dates (datetime.date): records [year, month, day]
\* ------------------------------------------------------------------------
IsLeap(y) == (y % 4 = 0) /\ ((y % 100 # 0) \/ (y % 400 = 0))

DaysInMonth(y, m) ==
  IF m = 2 THEN (IF IsLeap(y) THEN 29 ELSE 28)
  ELSE IF m \in {4, 6, 9, 11} THEN 30 ELSE 31

RECURSIVE DaysBeforeMonth(_, _)
DaysBeforeMonth(y, m) ==
  IF m = 1 THEN 0 ELSE DaysBeforeMonth(y, m - 1) + DaysInMonth(y, m - 1)

DaysBeforeYear(y) ==
  365 * (y - 1) + ((y - 1) \div 4) - ((y - 1) \div 100) + ((y - 1) \div 400)

\* date.toordinal()
ToOrdinal(d) == DaysBeforeYear(d.year) + DaysBeforeMonth(d.year, d.month) + d.day

NextDay(d) ==
  IF d.day < DaysInMonth(d.year, d.month)
    THEN [year |-> d.year, month |-> d.month, day |-> d.day + 1]
  ELSE IF d.month < 12
    THEN [year |-> d.year, month |-> d.month + 1, day |-> 1]
  ELSE [year |-> d.year + 1, month |-> 1, day |-> 1]

\* d + timedelta(days=n), n >= 0
RECURSIVE AddDays(_, _)
AddDays(d, n) == IF n = 0 THEN d ELSE AddDays(NextDay(d), n - 1)

\* (b - a).days
DaysDiff(a, b) == ToOrdinal(b) - ToOrdinal(a)

MonthName ==
  <<"January", "February", "March", "April", "May", "June", "July",
    "August", "September", "October", "November", "December">>

Pad2(n) == <<DigitChar[(n \div 10) + 1], DigitChar[(n % 10) + 1]>>

Pad4(n) ==
  <<DigitChar[((n \div 1000) % 10) + 1], DigitChar[((n \div 100) % 10) + 1],
    DigitChar[((n \div 10) % 10) + 1], DigitChar[(n % 10) + 1]>>

\* d.strftime('%B %d, %Y')
StrfLong(d) == <<MonthName[d.month], " ">> \o Pad2(d.day) \o <<", ">> \o Pad4(d.year)

\* d.strftime('%Y%m%d')
StrfCompact(d) == Pad4(d.year) \o Pad2(d.month) \o Pad2(d.day)

\* ------------------------------------------------------------------------
\* Inputs
\* ------------------------------------------------------------------------
\* datetime.now() of the session (the clock does not advance in the model)
Today == [year |-> 2025, month |-> 5, day |-> 19]

DefaultStartOffset == 7
DefaultEndOffset == 12

DefaultStart == AddDays(Today, DefaultStartOffset)
DefaultEnd == AddDays(Today, DefaultEndOffset)

\* the dates the user picks in a date input
PickDates ==
  {AddDays(Today, k) :
     k \in (DefaultEndOffset - 1)..(DefaultEndOffset + NumPickDates - 2)}

InterestOptions ==
  <<"Culture & Museums", "Food & Dining", "Adventure & Sports",
    "Nature & Parks", "Shopping", "Nightlife", "History",
    "Beach & Water Activities", "Art & Architecture">>

DefaultInterests == <<"Culture & Museums", "Food & Dining">>

BudgetOptions == <<"Budget", "Moderate", "Comfortable", "Luxury">>

TravelStyleOptions == <<"Relaxed", "Balanced", "Packed">>

\* the options the user clicks on
InterestPool == {InterestOptions[i] : i \in 1..NumInterestOptions}

\* values of the multiselect: the selected options in selection order
InterestSelections ==
  {s \in UNION {[1..n -> InterestPool] : n \in 0..NumInterestOptions} :
     \A i, j \in 1..Len(s) : i # j => s[i] # s[j]}

OriginInputs == {<<>>, <<"New", " ", "York">>}
DestinationInputs == {<<>>, <<"Paris">>, <<"Cape", " ", "Town">>}
KeyInputs == {<<>>, <<"sk-user">>}
EnvKeys == {<<>>, <<"sk-env">>}

\* what the external constructors and Crew.kickoff() may raise
BaseOf ==
  [c \in {"RateLimitError", "Exception"} |->
     IF c = "Exception" THEN "BaseException" ELSE "Exception"]

IsSubclass(c, base) ==
  \/ c = base
  \/ c \in DOMAIN BaseOf /\ BaseOf[c] = base
  \/ c \in DOMAIN BaseOf /\ BaseOf[c] \in DOMAIN BaseOf /\ BaseOf[BaseOf[c]] = base

Raisable ==
  {[kind |-> "exc", cls |-> "RateLimitError", text |-> <<"rate limit">>]}

\* what Crew.kickoff() may return
KickoffResults ==
  {[kind |-> "result", cls |-> "CrewOutput", text |-> <<"plan A">>],
   [kind |-> "result", cls |-> "CrewOutput", text |-> <<>>]}

NoOutcome == [kind |-> "none", cls |-> "", text |-> <<>>]

\* str(x) of a result or of an exception
Str(x) == x.text


\* Python's date comparison a <= b
DateLE(a, b) ==
  \/ a.year < b.year
  \/ a.year = b.year /\ a.month < b.month
  \/ a.year = b.year /\ a.month = b.month /\ a.day <= b.day

\* ------------------------------------------------------------------------
\* Session-state values
\* ------------------------------------------------------------------------
None == [some |-> FALSE, text |-> <<>>]
Some(t) == [some |-> TRUE, text |-> t]

\* `if x:` for x that is None or a str
IsTrue(x) == x.some /\ Truthy(x.text)

\* ------------------------------------------------------------------------
\* create_agents
\* ------------------------------------------------------------------------
OpenAI(api_key) == [model |-> "gpt-4o-mini", api_key |-> api_key]

create_agents(api_key) ==
  LET openai_llm == OpenAI(api_key)
      city_expert ==
        [role |-> "City Information Expert",
         goal |-> "Provide comprehensive information about cities including attractions, culture, and local tips",
         verbose |-> TRUE, allow_delegation |-> FALSE, llm |-> openai_llm]
      itinerary_planner ==
        [role |-> "Itinerary Planner",
         goal |-> "Create detailed, personalized day-by-day travel itineraries based on user preferences",
         verbose |-> TRUE, allow_delegation |-> FALSE, llm |-> openai_llm]
  IN <<city_expert, itinerary_planner>>

\* ------------------------------------------------------------------------
\* create_tasks
\* ------------------------------------------------------------------------
\* the difference of the dates without the inclusive day
Duration_exclusive(sd, ed) == DaysDiff(sd, ed)

\* line 76 (and line 222 for the form's own display)
Duration(sd, ed) == DaysDiff(sd, ed) + 1

ResearchDescription(dst, ints, b, ts) ==
  <<"Research ">> \o dst
    \o <<" and provide comprehensive information including:\n- Top 5 must-visit attractions related to: ">>
    \o Join(", ", ints)
    \o <<"\n- Best restaurants and local cuisine specialties\n- Cultural highlights and local customs\n- Transportation options within the city\n- Weather considerations\n- Important safety tips\n\nFocus on ">>
    \o <<b>> \o <<" budget options and ">> \o <<ts>>
    \o <<" travel style.\nKeep the response concise and practical.">>

ItineraryDescription(o, dst, sd, ed, ints, b, ts) ==
  <<"Create a detailed ">> \o IntStr(Duration(sd, ed))
    \o <<"-day itinerary for a trip from ">> \o o \o <<" to ">> \o dst
    \o <<".\n\nTrip details:\n- Dates: ">> \o StrfLong(sd) \o <<" to ">> \o StrfLong(ed)
    \o <<"\n- Interests: ">> \o Join(", ", ints)
    \o <<"\n- Budget: ">> \o <<b>>
    \o <<"\n- Travel style: ">> \o <<ts>>
    \o <<"\n\nFor each day provide:\n- Morning (9 AM - 12 PM): Activities with specific locations\n- Afternoon (12 PM - 6 PM): Activities with specific locations\n- Evening (6 PM - 10 PM): Activities and dining suggestions\n- Estimated daily cost range\n- Transportation tips between locations\n\nFormat it clearly with day numbers and time blocks.\nMake it practical, enjoyable, and realistic!">>

\* the two tasks returned in the opposite order
create_tasks_reversed(city_expert, itinerary_planner, o, dst, sd, ed, ints, b, ts) ==
  LET research_task ==
        [description |-> ResearchDescription(dst, ints, b, ts),
         agent |-> city_expert,
         expected_output |-> "Detailed city information with practical travel tips in a structured format",
         context |-> <<>>]
      itinerary_task ==
        [description |-> ItineraryDescription(o, dst, sd, ed, ints, b, ts),
         agent |-> itinerary_planner,
         expected_output |-> "Complete day-by-day itinerary with specific activities, timings, and practical details",
         context |-> <<research_task>>]
  IN <<itinerary_task, research_task>>

create_tasks(city_expert, itinerary_planner, o, dst, sd, ed, ints, b, ts) ==
  LET research_task ==
        [description |-> ResearchDescription(dst, ints, b, ts),
         agent |-> city_expert,
         expected_output |-> "Detailed city information with practical travel tips in a structured format",
         context |-> <<>>]
      itinerary_task ==
        [description |-> ItineraryDescription(o, dst, sd, ed, ints, b, ts),
         agent |-> itinerary_planner,
         expected_output |-> "Complete day-by-day itinerary with specific activities, timings, and practical details",
         context |-> <<research_task>>]
  IN <<research_task, itinerary_task>>

\* ------------------------------------------------------------------------
\* generate_trip_plan: the crew, the except clause
\* ------------------------------------------------------------------------
Crew(ags, tsks) == [agents |-> ags, tasks |-> tsks, verbose |-> TRUE]

NoCrew == [agents |-> <<>>, tasks |-> <<>>, verbose |-> FALSE]

\* an except clause that names another error class
Handles_value_error_only(e) == IsSubclass(e.cls, "ValueError")

\* `except Exception as e` catches e
Handles(e) == IsSubclass(e.cls, "Exception")

RemediationPhrase == "Please check your OpenAI API key and try again."

\* the text the except clause returns
ErrorText(e) ==
  <<"Error generating trip plan: ">> \o Str(e) \o <<"\n\n", RemediationPhrase>>

\* ------------------------------------------------------------------------
\* State
\* ------------------------------------------------------------------------
VARIABLES
  env_key,           \* os.getenv("OPENAI_API_KEY", "")
  key_input,         \* value of the sidebar text input
  origin, destination, start_date, end_date,
  interests, budget, travel_style,      \* values of the form widgets
  date_input_error,  \* the end-date input rejected its default value
  session_state,     \* st.session_state: trip_plan, generating
  pc,                \* position of the generate handler
  agents, tasks, crew,   \* locals of generate_trip_plan
  kickoffs,          \* calls of crew.kickoff() made for the current press
  outcome,           \* what the collaborator returned or raised
  raised_at,         \* the call of generate_trip_plan that raised
  result,            \* the value generate_trip_plan returned
  notice,            \* the st.error message of this run
  event,             \* the interaction that started the last script run
  last_returned      \* text returned by the last generation since a clear

formVars ==
  <<env_key, key_input, origin, destination, start_date, end_date,
    interests, budget, travel_style, date_input_error>>

callVars == <<agents, tasks, crew, kickoffs, outcome, raised_at, result>>

vars == <<formVars, session_state, pc, callVars, notice, event, last_returned>>

\* line 183: env_key or st.text_input(...)
openai_api_key == IF Truthy(env_key) THEN env_key ELSE key_input

\* line 222
duration == Duration(start_date, end_date)

\* line 292: the results section is rendered in this run
Displayed == ~date_input_error /\ IsTrue(session_state.trip_plan)

Init ==
  /\ env_key \in EnvKeys
  /\ key_input = <<>>
  /\ origin = <<"New", " ", "York">>
  /\ destination = <<"Paris">>
  /\ start_date = DefaultStart
  /\ end_date = DefaultEnd
  /\ interests = DefaultInterests
  /\ budget = "Moderate"
  /\ travel_style = "Balanced"
  /\ date_input_error = FALSE
  /\ session_state = [trip_plan |-> None, generating |-> FALSE]
  /\ pc = "idle"
  /\ agents = <<>>
  /\ tasks = <<>>
  /\ crew = NoCrew
  /\ kickoffs = 0
  /\ outcome = NoOutcome
  /\ raised_at = "none"
  /\ result = <<>>
  /\ notice = "none"
  /\ event = "start"
  /\ last_returned = None

\* ------------------------------------------------------------------------
\* Form edits: the script reruns with the new widget value, no handler runs
\* ------------------------------------------------------------------------
Rerun(kind) ==
  /\ notice' = "none"
  /\ event' = kind
  /\ UNCHANGED <<session_state, pc, callVars, last_returned>>

EditKey ==
  /\ pc = "idle"
  /\ ~Truthy(env_key)
  /\ \E v \in KeyInputs : v # key_input /\ key_input' = v
  /\ UNCHANGED <<env_key, origin, destination, start_date, end_date,
                 interests, budget, travel_style, date_input_error>>
  /\ Rerun("edit")

EditOrigin ==
  /\ pc = "idle"
  /\ \E v \in OriginInputs : v # origin /\ origin' = v
  /\ UNCHANGED <<env_key, key_input, destination, start_date, end_date,
                 interests, budget, travel_style, date_input_error>>
  /\ Rerun("edit")

EditDestination ==
  /\ pc = "idle"
  /\ \E v \in DestinationInputs : v # destination /\ destination' = v
  /\ UNCHANGED <<env_key, key_input, origin, start_date, end_date,
                 interests, budget, travel_style, date_input_error>>
  /\ Rerun("edit")

\* The end-date input has min_value = start_date.  After the start date
\* moved, the input yields its previous value or its default value, whichever
\* the toolkit keeps, provided it is not before min_value; a default value
\* before min_value makes the input raise and the run stops there.
EditStartDate ==
  /\ pc = "idle"
  /\ \E v \in PickDates \cup {DefaultStart} :
       /\ v # start_date
       /\ DateLE(Today, v)
       /\ start_date' = v
       /\ \/ /\ DateLE(v, end_date)
             /\ end_date' = end_date
             /\ date_input_error' = FALSE
          \/ /\ DateLE(v, DefaultEnd)
             /\ end_date' = DefaultEnd
             /\ date_input_error' = FALSE
          \/ /\ ~DateLE(v, DefaultEnd)
             /\ end_date' = end_date
             /\ date_input_error' = TRUE
  /\ UNCHANGED <<env_key, key_input, origin, destination,
                 interests, budget, travel_style>>
  /\ Rerun("edit")

EditEndDate ==
  /\ pc = "idle"
  /\ ~date_input_error
  /\ \E v \in PickDates :
       /\ v # end_date
       /\ DateLE(start_date, v)
       /\ end_date' = v
  /\ UNCHANGED <<env_key, key_input, origin, destination, start_date,
                 interests, budget, travel_style, date_input_error>>
  /\ Rerun("edit")

EditInterests ==
  /\ pc = "idle"
  /\ ~date_input_error
  /\ \E v \in InterestSelections : v # interests /\ interests' = v
  /\ UNCHANGED <<env_key, key_input, origin, destination, start_date,
                 end_date, budget, travel_style, date_input_error>>
  /\ Rerun("edit")

EditBudget ==
  /\ pc = "idle"
  /\ ~date_input_error
  /\ \E v \in Range(BudgetOptions) : v # budget /\ budget' = v
  /\ UNCHANGED <<env_key, key_input, origin, destination, start_date,
                 end_date, interests, travel_style, date_input_error>>
  /\ Rerun("edit")

EditTravelStyle ==
  /\ pc = "idle"
  /\ ~date_input_error
  /\ \E v \in Range(TravelStyleOptions) : v # travel_style /\ travel_style' = v
  /\ UNCHANGED <<env_key, key_input, origin, destination, start_date,
                 end_date, interests, budget, date_input_error>>
  /\ Rerun("edit")

\* ------------------------------------------------------------------------
\* The generate button handler (lines 260-287) and generate_trip_plan
\* ------------------------------------------------------------------------
\* a validation chain without the interests check
Validate_no_interests_check(key, o, dst, ints) ==
  IF ~Truthy(key) THEN "api_key"
  ELSE IF ~Truthy(o) \/ ~Truthy(dst) THEN "cities"
  ELSE "none"

\* the st.error branch the handler takes, "none" when the input is valid
Validate(key, o, dst, ints) ==
  IF ~Truthy(key) THEN "api_key"
  ELSE IF ~Truthy(o) \/ ~Truthy(dst) THEN "cities"
  ELSE IF ints = <<>> THEN "interests"
  ELSE "none"

PressGenerate ==
  /\ pc = "idle"
  /\ ~date_input_error
  /\ event' = "generate"
  /\ notice' = Validate(openai_api_key, origin, destination, interests)
  /\ IF notice' = "none"
       THEN /\ session_state' = [session_state EXCEPT !.generating = TRUE]
            /\ pc' = "create_agents"
            /\ kickoffs' = 0
            /\ UNCHANGED <<agents, tasks, crew, outcome, raised_at, result>>
       ELSE UNCHANGED <<session_state, pc, callVars>>
  /\ UNCHANGED <<formVars, last_returned>>

\* an exception e raised by the call `where` inside the try block
Raise(e, where) ==
  IF Handles(e)
    THEN /\ pc' = "returned"
         /\ result' = ErrorText(e)
         /\ outcome' = e
         /\ raised_at' = where
         /\ UNCHANGED <<agents, tasks, crew, session_state, event>>
    ELSE \* the exception leaves the handler and ends the run
         /\ pc' = "idle"
         /\ event' = "crash"
         /\ agents' = <<>>
         /\ tasks' = <<>>
         /\ crew' = NoCrew
         /\ outcome' = NoOutcome
         /\ raised_at' = "none"
         /\ result' = <<>>
         /\ UNCHANGED session_state

CreateAgents ==
  /\ pc = "create_agents"
  /\ \/ /\ agents' = create_agents(openai_api_key)
        /\ pc' = "create_tasks"
        /\ UNCHANGED <<tasks, crew, outcome, raised_at, result,
                       session_state, event>>
     \/ \E e \in Raisable : Raise(e, "create_agents")
  /\ UNCHANGED <<formVars, kickoffs, notice, last_returned>>

CreateTasks ==
  /\ pc = "create_tasks"
  /\ \/ /\ tasks' = create_tasks(agents[1], agents[2], origin, destination,
                                 start_date, end_date, interests, budget,
                                 travel_style)
        /\ pc' = "Crew"
        /\ UNCHANGED <<agents, crew, outcome, raised_at, result,
                       session_state, event>>
     \/ \E e \in Raisable : Raise(e, "create_tasks")
  /\ UNCHANGED <<formVars, kickoffs, notice, last_returned>>

CreateCrew ==
  /\ pc = "Crew"
  /\ \/ /\ crew' = Crew(agents, tasks)
        /\ pc' = "kickoff"
        /\ UNCHANGED <<agents, tasks, outcome, raised_at, result,
                       session_state, event>>
     \/ \E e \in Raisable : Raise(e, "Crew")
  /\ UNCHANGED <<formVars, kickoffs, notice, last_returned>>

\* a kickoff that is tried again after it raised
Kickoff_retry ==
  /\ pc = "kickoff"
  /\ kickoffs' = kickoffs + 1
  /\ \/ \E r \in KickoffResults :
          /\ outcome' = r
          /\ result' = Str(r)
          /\ raised_at' = "none"
          /\ pc' = "returned"
          /\ UNCHANGED <<agents, tasks, crew, session_state, event>>
     \/ /\ kickoffs = 0
        /\ UNCHANGED <<pc, agents, tasks, crew, outcome, raised_at, result,
                       session_state, event>>
     \/ /\ kickoffs > 0
        /\ \E e \in Raisable : Raise(e, "kickoff")
  /\ UNCHANGED <<formVars, notice, last_returned>>

Kickoff ==
  /\ pc = "kickoff"
  /\ kickoffs' = kickoffs + 1
  /\ \/ \E r \in KickoffResults :
          /\ outcome' = r
          /\ result' = Str(r)
          /\ raised_at' = "none"
          /\ pc' = "returned"
          /\ UNCHANGED <<agents, tasks, crew, session_state, event>>
     \/ \E e \in Raisable : Raise(e, "kickoff")
  /\ UNCHANGED <<formVars, notice, last_returned>>

\* a handler that keeps a plan it already holds
completeGeneration_keep_first(ss, r) ==
  [ss EXCEPT !.trip_plan = IF ss.trip_plan.some THEN ss.trip_plan ELSE Some(r),
             !.generating = FALSE]

\* a handler that forgets to reset the flag
completeGeneration_flag_left(ss, r) == [ss EXCEPT !.trip_plan = Some(r)]

\* lines 280-281
completeGeneration(ss, r) == [ss EXCEPT !.trip_plan = Some(r), !.generating = FALSE]

StoreResult ==
  /\ pc = "returned"
  /\ session_state' = completeGeneration(session_state, result)
  /\ last_returned' = Some(result)
  /\ pc' = "idle"
  /\ agents' = <<>>
  /\ tasks' = <<>>
  /\ crew' = NoCrew
  /\ kickoffs' = 0
  /\ outcome' = NoOutcome
  /\ raised_at' = "none"
  /\ result' = <<>>
  /\ UNCHANGED <<formVars, notice, event>>

\* ------------------------------------------------------------------------
\* The results section (lines 292-329)
\* ------------------------------------------------------------------------
\* a clear that stores the empty string
clear_to_empty(ss) == [ss EXCEPT !.trip_plan = Some(<<>>)]

\* line 328
clear(ss) == [ss EXCEPT !.trip_plan = None]

ClearPlan ==
  /\ pc = "idle"
  /\ Displayed
  /\ session_state' = clear(session_state)
  /\ last_returned' = None
  /\ notice' = "none"
  /\ event' = "clear"
  /\ UNCHANGED <<formVars, pc, callVars>>

DownloadPlan ==
  /\ pc = "idle"
  /\ Displayed
  /\ UNCHANGED formVars
  /\ Rerun("download")

\* what the results section shows, from the widget values of this run
Summary ==
  [route |-> origin \o <<" -> ">> \o destination,
   duration |-> IntStr(duration) \o <<" days">>,
   budget |-> budget,
   style |-> travel_style,
   interests |-> <<"**Interests:** ">> \o Join(", ", interests),
   dates |-> <<"**Travel Dates:** ">> \o StrfLong(start_date) \o <<" - ">>
               \o StrfLong(end_date),
   file_name |-> <<"trip_plan_">> \o ReplaceSpace(Lower(destination)) \o <<"_">>
                   \o StrfCompact(start_date) \o <<".txt">>]

Next ==
  \/ EditKey
  \/ EditOrigin
  \/ EditDestination
  \/ EditStartDate
  \/ EditEndDate
  \/ EditInterests
  \/ EditBudget
  \/ EditTravelStyle
  \/ PressGenerate
  \/ CreateAgents
  \/ CreateTasks
  \/ CreateCrew
  \/ Kickoff
  \/ StoreResult
  \/ ClearPlan
  \/ DownloadPlan

Spec == Init /\ [][Next]_vars

\* ========================================================================
\* Properties
\* ========================================================================
InFlight == pc \in {"create_agents", "create_tasks", "Crew", "kickoff", "returned"}

\* the request of the press is acceptable to the handler's checks
ValidRequest ==
  /\ openai_api_key # <<>>
  /\ origin # <<>>
  /\ destination # <<>>
  /\ Len(interests) >= 1

\* number of NextDay steps from a to b, looking at most n days ahead
RECURSIVE StepsTo(_, _, _)
StepsTo(a, b, n) ==
  IF a = b THEN 0
  ELSE IF n = 0 THEN 0 - 1000
  ELSE 1 + StepsTo(NextDay(a), b, n - 1)

CalendarDays(a, b) == StepsTo(a, b, DefaultEndOffset + NumPickDates)

\* C1: generate_trip_plan never raises to its caller: whatever is raised
\* while creating the agents, the tasks, the crew or in kickoff() ends as a
\* returned text that contains the exception's message and the remediation
\* phrase, and a run in which nothing is raised returns str(result) as is.
C1_NeverRaises ==
  /\ event # "crash"
  /\ pc = "returned" =>
       /\ outcome.kind \in {"exc", "result"}
       /\ outcome.kind = "exc" =>
            /\ raised_at \in {"create_agents", "create_tasks", "Crew", "kickoff"}
            /\ Contains(result, outcome.text)
            /\ Contains(result, <<"Please check your OpenAI API key and try again.">>)
            /\ result[1] = "Error generating trip plan: "
            /\ Len(result) = Len(outcome.text) + 3
       /\ outcome.kind = "result" =>
            /\ raised_at = "none"
            /\ result = outcome.text

C1_Witness ==
  /\ pc = "returned"
  /\ raised_at = "kickoff"
  /\ outcome.text = <<"rate limit">>
  /\ Contains(result, <<"rate limit">>)

\* C2: trip_plan is null when no generation has completed since the session
\* started or since the last clear, and otherwise is exactly the text the
\* most recently completed generation returned; the session state holds
\* nothing else than trip_plan and generating.
C2_PlanIsLastResult ==
  /\ DOMAIN session_state = {"trip_plan", "generating"}
  /\ session_state.trip_plan = last_returned
  /\ (event = "start" \/ event = "clear") => session_state.trip_plan = None

C2_Witness ==
  /\ pc = "idle"
  /\ event = "download"
  /\ last_returned = Some(ErrorText([text |-> <<"rate limit">>]))
  /\ session_state.trip_plan.text[2] = "rate limit"

\* C3: generating is true exactly while a generation call is in flight and
\* false whenever the session waits for the next interaction.
C3_GeneratingOnlyInFlight ==
  /\ pc = "idle" => session_state.generating = FALSE
  /\ InFlight => session_state.generating = TRUE

C3_Witness ==
  /\ pc = "idle"
  /\ event = "generate"
  /\ notice = "none"
  /\ session_state.trip_plan.some
  /\ session_state.generating = FALSE

\* C4: a press of the generate button starts generate_trip_plan only for a
\* request with a credential, an origin, a destination and an interest; a
\* press that fails a check calls nothing and leaves trip_plan and
\* generating as they were.
C4_InvalidPressCallsNothing ==
  /\ [](InFlight => ValidRequest)
  /\ [][PressGenerate =>
          IF ValidRequest
            THEN pc' = "create_agents" /\ notice' = "none"
            ELSE /\ pc' = "idle"
                 /\ notice' # "none"
                 /\ session_state' = session_state
                 /\ kickoffs' = kickoffs
                 /\ agents' = agents /\ tasks' = tasks /\ crew' = crew]_vars

C4_Witness ==
  /\ pc = "idle"
  /\ event = "generate"
  /\ notice = "interests"
  /\ interests = <<>>
  /\ session_state.trip_plan.some

\* C5 as stated: every valid press has invoked kickoff() exactly once when
\* generate_trip_plan has returned.
C5_ExactlyOncePerPress == pc = "returned" => kickoffs = 1

\* C5 as amended: kickoff() is invoked at most once per valid press, before
\* the result is stored: exactly once when creating the agents, the tasks
\* and the crew raised nothing (also when kickoff() itself raised), and not
\* at all when one of these raised.
C5_AtMostOncePerPress ==
  /\ kickoffs <= 1
  /\ pc \in {"create_agents", "create_tasks", "Crew", "kickoff"} => kickoffs = 0
  /\ pc = "returned" =>
       /\ raised_at \in {"none", "kickoff"} => kickoffs = 1
       /\ raised_at \in {"create_agents", "create_tasks", "Crew"} => kickoffs = 0
  /\ pc = "idle" => kickoffs = 0

C5_Witness ==
  /\ pc = "returned"
  /\ raised_at = "kickoff"
  /\ kickoffs = 1

\* C6: the clear action sets trip_plan to null and leaves generating as it
\* was; the assignment applied to a state whose trip_plan is null changes
\* nothing, so clearing twice equals clearing once.
C6_ClearIsIdempotent ==
  /\ [][ClearPlan =>
          /\ session_state'.trip_plan = None
          /\ session_state'.generating = session_state.generating]_vars
  /\ [](/\ clear(clear(session_state)) = clear(session_state)
        /\ clear(session_state).trip_plan = None
        /\ session_state.trip_plan = None => clear(session_state) = session_state)

C6_Witness ==
  /\ event = "clear"
  /\ pc = "idle"
  /\ session_state.trip_plan = None
  /\ clear(session_state) = session_state

IsResearchTask(t) == t.description[1] = "Research "
IsItineraryTask(t) == t.description[1] = "Create a detailed "

\* C7: the crew handed to kickoff() lists the research task first and the
\* itinerary task second, the research task bound to the city information
\* expert and the itinerary task to the itinerary planner, the itinerary
\* task having the research task as its only context and the research task
\* having no context.
C7_ResearchBeforeItinerary ==
  crew # NoCrew =>
    /\ Len(crew.tasks) = 2
    /\ IsResearchTask(crew.tasks[1])
    /\ IsItineraryTask(crew.tasks[2])
    /\ crew.tasks[1].agent.role = "City Information Expert"
    /\ crew.tasks[2].agent.role = "Itinerary Planner"
    /\ crew.tasks[2].context = <<crew.tasks[1]>>
    /\ crew.tasks[1].context = <<>>
    /\ crew.agents = <<crew.tasks[1].agent, crew.tasks[2].agent>>

C7_Witness ==
  /\ pc = "returned"
  /\ kickoffs = 1
  /\ crew # NoCrew
  /\ Len(crew.tasks) = 2

\* C8: a request that reaches create_tasks has end_date not before
\* start_date, and its duration is the number of calendar days from
\* start_date to end_date plus one, so at least 1, and 1 for equal dates.
C8_DurationInclusive ==
  pc \in {"create_tasks", "Crew", "kickoff"} =>
    /\ ~DateLE(end_date, start_date) \/ end_date = start_date
    /\ Duration(start_date, end_date) = CalendarDays(start_date, end_date) + 1
    /\ Duration(start_date, end_date) >= 1
    /\ start_date = end_date => Duration(start_date, end_date) = 1

C8_Witness ==
  /\ pc = "create_tasks"
  /\ start_date = end_date
  /\ Duration(start_date, end_date) = 1

\* C9: the itinerary task description carries the duration, both formatted
\* dates, exactly the selected interest labels, and the origin, destination,
\* budget and travel style of the request.
C9_ItineraryDescriptionComplete ==
  tasks # <<>> =>
    LET d == tasks[2].description IN
    /\ Contains(d, <<"Create a detailed ">>
                     \o NatStr(CalendarDays(start_date, end_date) + 1)
                     \o <<"-day itinerary for a trip from ">>
                     \o origin \o <<" to ">> \o destination)
    /\ Contains(d, StrfLong(start_date) \o <<" to ">> \o StrfLong(end_date)
                     \o <<"\n- Interests: ">>)
    /\ start_date = [year |-> 2025, month |-> 5, day |-> 26] =>
         Contains(d, <<"May", " ", "2", "6", ", ", "2", "0", "2", "5", " to ">>)
    /\ end_date = [year |-> 2025, month |-> 6, day |-> 1] =>
         Contains(d, <<" to ", "June", " ", "0", "1", ", ", "2", "0", "2", "5">>)
    /\ \A i \in 1..Len(InterestOptions) :
         Contains(d, <<InterestOptions[i]>>)
           <=> (\E j \in 1..Len(interests) : interests[j] = InterestOptions[i])
    /\ \A j \in 1..Len(interests) :
         Cardinality({k \in 1..Len(d) : d[k] = interests[j]}) = 1
    /\ Contains(d, <<"\n- Budget: ", budget>>)
    /\ Contains(d, <<"\n- Travel style: ", travel_style>>)

C9_Witness ==
  /\ tasks # <<>>
  /\ Len(interests) = 2
  /\ start_date = [year |-> 2025, month |-> 5, day |-> 26]
  /\ end_date = [year |-> 2025, month |-> 6, day |-> 1]
  /\ Contains(tasks[2].description, <<"7", "-day itinerary for a trip from ">>)

\* C10: while one plan stays displayed, the summary and the download file
\* name shown with it are those of the request that produced it, that is,
\* those shown when the plan was stored: no interaction that leaves the
\* displayed plan in place changes them.
C10_SummaryIsOfPlanRequest ==
  [][(/\ pc = "idle" /\ pc' = "idle"
      /\ Displayed /\ Displayed'
      /\ session_state'.trip_plan = session_state.trip_plan)
       => Summary' = Summary]_vars

====
